---- MODULE Spec2Model ----
(***************************************************************************)
(* Model of the ShengTang convertible-bond valuation engine                *)
(* (src/cb_quant_system/strategy_shengtang.py).                            *)
(*                                                                         *)
(* Numbers are fixed point.  Prices, values, years, rates, probabilities   *)
(* and percents are integers in thousandths (SC): 25.0 is 25000, a rate of *)
(* 0.025 is 25, a probability of 1.0 is 1000.  Logarithms and exponentials *)
(* are carried in ten-thousandths (P) inside the pricing primitives.       *)
(***************************************************************************)
EXTENDS Integers, Sequences, FiniteSets, TLC

\* ---------------------------------------------------------------- bounds
\* Longest input batch (rows of the DataFrame) of the batch specification.
MaxBatch == 3
\* Largest top_n a caller passes.
MaxTopN == 3

\* ------------------------------------------------------------ fixed point
SC == 10^3
P == 10^4

Max(a, b) == IF a >= b THEN a ELSE b
Min(a, b) == IF a <= b THEN a ELSE b

\* a / b rounded to the nearest integer, b > 0 (the float division of the code).
RDiv(a, b) == (2 * a + b) \div (2 * b)

RECURSIVE SqrtSearch(_, _, _)
SqrtSearch(n, lo, hi) ==
    IF lo >= hi THEN lo
    ELSE LET mid == (lo + hi + 1) \div 2
         IN  IF mid * mid <= n THEN SqrtSearch(n, mid, hi)
                               ELSE SqrtSearch(n, lo, mid - 1)

\* np.sqrt: x in thousandths, result in thousandths.
Sqrt(x) == SqrtSearch(x * SC, 0, 40000)

\* np.log: x > 0 in ten-thousandths, result in ten-thousandths.
\* ln x = 2 atanh((x-1)/(x+1)) after halving or doubling x into [0.75, 1.5].
RECURSIVE Ln(_)
Ln(x) ==
    IF x > 15000 THEN Ln(RDiv(x, 2)) + 6931
    ELSE IF x < 7500 THEN Ln(2 * x) - 6931
    ELSE LET z  == RDiv((x - P) * P, x + P)
             z2 == RDiv(z * z, P)
             z3 == RDiv(z2 * z, P)
             z5 == RDiv(z3 * z2, P)
         IN  2 * z + RDiv(2 * z3, 3) + RDiv(2 * z5, 5)

RECURSIVE ExpSeries(_, _, _)
ExpSeries(x, term, n) ==
    IF n > 9 \/ term = 0 THEN 0
    ELSE term + ExpSeries(x, RDiv(term * x, n * P), n + 1)

\* np.exp: x in ten-thousandths, result in ten-thousandths.
RECURSIVE Exp(_)
Exp(x) ==
    IF x > P \/ x < -P
    THEN LET h == Exp(RDiv(x, 2)) IN RDiv(h * h, P)
    ELSE ExpSeries(x, P, 1)

\* base ** y of the code: base > 0 and y in thousandths, result in thousandths.
Pow(base, y) == RDiv(Exp(RDiv(Ln(base * 10) * y, SC)), 10)

\* Standard normal CDF at 0.0, 0.1, ..., 4.0, in ten-thousandths.
PhiTab ==
    << 5000, 5398, 5793, 6179, 6554, 6915, 7257, 7580, 7881, 8159,
       8413, 8643, 8849, 9032, 9192, 9332, 9452, 9554, 9641, 9713,
       9772, 9821, 9861, 9893, 9918, 9938, 9953, 9965, 9974, 9981,
       9987, 9990, 9993, 9995, 9997, 9998, 9998, 9999, 9999, 10000,
       10000 >>

PhiPos(d) ==
    IF d >= 4000 THEN P
    ELSE LET k == d \div 100
             f == d % 100
         IN  PhiTab[k + 1] + ((PhiTab[k + 2] - PhiTab[k + 1]) * f) \div 100

\* norm.cdf: d in thousandths, result a probability in thousandths.
NormCdf(d) == IF d >= 0 THEN RDiv(PhiPos(d), 10) ELSE SC - RDiv(PhiPos(-d), 10)

\* ------------------------------------------------------------ cell values
\* A cell of the DataFrame: a number, NaN (a missing value), or a
\* non-numeric string (such as "N/A").  A rating cell carries its characters.
Num(n) == [tag |-> "num", v |-> n]
NaN == [tag |-> "nan", v |-> 0]
NonNumeric == [tag |-> "str", v |-> 0]
Rating(chars) == [tag |-> "str", v |-> chars]
NaNRating == [tag |-> "nan", v |-> << >>]

\* pd.isna
IsNa(x) == x.tag = "nan"

\* row.get(col, default): the default only when the DataFrame has no such column.
Get(row, cols, col, default) == IF col \in cols THEN row[col] ELSE default

\* ------------------------------------------------------------- parameters
KeyAAA == << "A", "A", "A" >>
KeyAAp == << "A", "A", "+" >>
KeyAA == << "A", "A" >>
KeyAAm == << "A", "A", "-" >>
KeyAp == << "A", "+" >>
KeyA == << "A" >>
KeyAm == << "A", "-" >>
KeyBBB == << "B", "B", "B" >>
KeyDefault == << "d", "e", "f", "a", "u", "l", "t" >>

SHENGTANG_CONFIG ==
    [ risk_free_rate |-> 25,
      credit_spread |->
          (KeyAAA :> 5) @@ (KeyAAp :> 10) @@ (KeyAA :> 15) @@ (KeyAAm :> 20) @@
          (KeyAp :> 30) @@ (KeyA :> 40) @@ (KeyAm :> 50) @@ (KeyBBB :> 70) @@
          (KeyDefault :> 25),
      call_trigger_ratio |-> 1300,
      put_trigger_ratio |-> 700,
      downward_revision_base_prob |-> 800,
      volatility_adjustment |-> 1100,
      default_volatility |-> 350,
      conversion_threshold |-> 130000 ]

\* ------------------------------------------------------------------ pricer
\* ln(a / b), in ten-thousandths.
LnRatio(a, b) == Ln(RDiv(a * P, b))

\* (r + sign * 0.5 * sigma ** 2) * T, in ten-thousandths.
Drift(r, sigma, T, sign) == RDiv((r * SC + sign * ((sigma * sigma) \div 2)) * T, 10^5)

\* sigma * np.sqrt(T), in ten-thousandths.
Vol(sigma, T) == RDiv(sigma * Sqrt(T), 100)

\* (np.log(S / K) + (r + 0.5 * sigma ** 2) * T) / (sigma * np.sqrt(T))
D1(S, K, T, r, sigma) == RDiv((LnRatio(S, K) + Drift(r, sigma, T, 1)) * SC, Vol(sigma, T))

\* (np.log(S / K) + (r - 0.5 * sigma ** 2) * T) / (sigma * np.sqrt(T))
D2(S, K, T, r, sigma) == RDiv((LnRatio(S, K) + Drift(r, sigma, T, -1)) * SC, Vol(sigma, T))

\* K * np.exp(-r * T)
DiscountedStrike(K, T, r) == RDiv(K * Exp(-RDiv(r * T, 100)), P)

\* Mutant: a degenerate call is worth nothing.
black_scholes_call_DegenerateZero(S, K, T, r, sigma) ==
    IF T <= 0 \/ sigma <= 0 \/ S <= 0 \/ K <= 0
    THEN 0
    ELSE LET d1 == D1(S, K, T, r, sigma)
             d2 == d1 - RDiv(Vol(sigma, T), 10)
         IN  Max(0, RDiv(S * NormCdf(d1), SC)
                    - RDiv(DiscountedStrike(K, T, r) * NormCdf(d2), SC))

black_scholes_call(S, K, T, r, sigma) ==
    IF T <= 0 \/ sigma <= 0 \/ S <= 0 \/ K <= 0
    THEN Max(0, S - K)
    ELSE LET d1 == D1(S, K, T, r, sigma)
             d2 == d1 - RDiv(Vol(sigma, T), 10)
             call_price == RDiv(S * NormCdf(d1), SC)
                           - RDiv(DiscountedStrike(K, T, r) * NormCdf(d2), SC)
         IN  Max(0, call_price)

\* Mutant: the put is returned without max(0, .).
black_scholes_put_Unclamped(S, K, T, r, sigma) ==
    IF T <= 0 \/ sigma <= 0 \/ S <= 0 \/ K <= 0
    THEN K - S
    ELSE LET d1 == D1(S, K, T, r, sigma)
             d2 == d1 - RDiv(Vol(sigma, T), 10)
         IN  RDiv(DiscountedStrike(K, T, r) * NormCdf(-d2), SC)
             - RDiv(S * NormCdf(-d1), SC)

black_scholes_put(S, K, T, r, sigma) ==
    IF T <= 0 \/ sigma <= 0 \/ S <= 0 \/ K <= 0
    THEN Max(0, K - S)
    ELSE LET d1 == D1(S, K, T, r, sigma)
             d2 == d1 - RDiv(Vol(sigma, T), 10)
             put_price == RDiv(DiscountedStrike(K, T, r) * NormCdf(-d2), SC)
                          - RDiv(S * NormCdf(-d1), SC)
         IN  Max(0, put_price)

\* (S / K) * 100, the conversion value in thousandths of a percent.
ConversionValue(S, K) == RDiv(S * P, K) * 10

\* str.upper and str.strip over the characters a rating cell can hold.
UpperChar(c) ==
    CASE c = "a" -> "A" [] c = "b" -> "B" [] c = "d" -> "D" [] c = "e" -> "E"
      [] c = "f" -> "F" [] c = "u" -> "U" [] c = "l" -> "L" [] c = "t" -> "T"
      [] c = "j" -> "J" [] OTHER -> c

Upper(s) == [k \in 1..Len(s) |-> UpperChar(s[k])]

RECURSIVE LStrip(_)
LStrip(s) == IF s # << >> /\ Head(s) = " " THEN LStrip(Tail(s)) ELSE s

RECURSIVE RStrip(_)
RStrip(s) ==
    IF s # << >> /\ s[Len(s)] = " " THEN RStrip(SubSeq(s, 1, Len(s) - 1)) ELSE s

Strip(s) == RStrip(LStrip(s))

\* Mutant: the rating is looked up as it is written.
get_credit_spread_AsWritten(rating) ==
    IF IsNa(rating)
    THEN SHENGTANG_CONFIG.credit_spread[KeyDefault]
    ELSE IF rating.v \in DOMAIN SHENGTANG_CONFIG.credit_spread
         THEN SHENGTANG_CONFIG.credit_spread[rating.v]
         ELSE SHENGTANG_CONFIG.credit_spread[KeyDefault]

get_credit_spread(rating) ==
    IF IsNa(rating)
    THEN SHENGTANG_CONFIG.credit_spread[KeyDefault]
    ELSE LET rating_str == Upper(Strip(rating.v))
         IN  IF rating_str \in DOMAIN SHENGTANG_CONFIG.credit_spread
             THEN SHENGTANG_CONFIG.credit_spread[rating_str]
             ELSE SHENGTANG_CONFIG.credit_spread[KeyDefault]

\* Mutant: at expiry the conversion value must exceed the threshold.
calculate_conversion_probability_Strict(S, K, T, sigma, threshold) ==
    IF T <= 0 \/ sigma <= 0
    THEN IF ConversionValue(S, K) > threshold THEN SC ELSE 0
    ELSE NormCdf(D2(S, RDiv(K * RDiv(threshold, 100), SC), T,
                    SHENGTANG_CONFIG.risk_free_rate, sigma))

calculate_conversion_probability(S, K, T, sigma, threshold) ==
    IF T <= 0 \/ sigma <= 0
    THEN IF ConversionValue(S, K) >= threshold THEN SC ELSE 0
    ELSE LET required_stock_price == RDiv(K * RDiv(threshold, 100), SC)
             r == SHENGTANG_CONFIG.risk_free_rate
         IN  NormCdf(D2(S, required_stock_price, T, r, sigma))

\* -------------------------------------------------------------- valuators
\* A list argument that may be None.
NoneList == [none |-> TRUE, v |-> << >>]
List(s) == [none |-> FALSE, v |-> s]

\* int(np.ceil(T)) and int(T) for T > 0.
Ceil(T) == (T + SC - 1) \div SC
IntPart(T) == T \div SC

DefaultCouponRates == << 4, 6, 10, 15, 20, 25 >>

\* Mutant: the loop runs through year n_years, without the break.
RECURSIVE BondFloorLoop_NoBreak(_, _, _, _, _, _, _, _)
BondFloorLoop_NoBreak(year, n_years, face_value, coupon_rates, years_to_maturity, discount_rate, conversion_probs, acc) ==
    IF year > n_years
    THEN acc
    ELSE LET coupon == RDiv(face_value * coupon_rates[Min(year - 1, Len(coupon_rates) - 1) + 1], SC)
             conv_prob == conversion_probs[Min(year - 1, Len(conversion_probs) - 1) + 1]
             adjusted_coupon ==
                 RDiv(RDiv(coupon * acc.remaining_prob, SC) * (SC - conv_prob), SC)
         IN  BondFloorLoop_NoBreak(year + 1, n_years, face_value, coupon_rates,
                 years_to_maturity, discount_rate, conversion_probs,
                 [pv |-> acc.pv + RDiv(adjusted_coupon * SC,
                                       Pow(SC + discount_rate, year * SC)),
                  remaining_prob |-> RDiv(acc.remaining_prob * (SC - conv_prob), SC)])

\* Mutant: remaining_prob is multiplied by (1 + conv_prob).
RECURSIVE BondFloorLoop_Compounding(_, _, _, _, _, _, _, _)
BondFloorLoop_Compounding(year, n_years, face_value, coupon_rates, years_to_maturity, discount_rate, conversion_probs, acc) ==
    IF year > n_years \/ year * SC > years_to_maturity
    THEN acc
    ELSE LET coupon == RDiv(face_value * coupon_rates[Min(year - 1, Len(coupon_rates) - 1) + 1], SC)
             conv_prob == conversion_probs[Min(year - 1, Len(conversion_probs) - 1) + 1]
             adjusted_coupon ==
                 RDiv(RDiv(coupon * acc.remaining_prob, SC) * (SC - conv_prob), SC)
         IN  BondFloorLoop_Compounding(year + 1, n_years, face_value, coupon_rates,
                 years_to_maturity, discount_rate, conversion_probs,
                 [pv |-> acc.pv + RDiv(adjusted_coupon * SC,
                                       Pow(SC + discount_rate, year * SC)),
                  remaining_prob |-> RDiv(acc.remaining_prob * (SC + conv_prob), SC)])

\* The loop of calculate_bond_floor from `year` on; acc = [pv, remaining_prob].
RECURSIVE BondFloorLoop(_, _, _, _, _, _, _, _)
BondFloorLoop(year, n_years, face_value, coupon_rates, years_to_maturity, discount_rate, conversion_probs, acc) ==
    IF year > n_years \/ year * SC > years_to_maturity
    THEN acc
    ELSE LET coupon_idx == Min(year - 1, Len(coupon_rates) - 1)
             coupon == RDiv(face_value * coupon_rates[coupon_idx + 1], SC)
             conv_prob_idx == Min(year - 1, Len(conversion_probs) - 1)
             conv_prob == conversion_probs[conv_prob_idx + 1]
             adjusted_coupon ==
                 RDiv(RDiv(coupon * acc.remaining_prob, SC) * (SC - conv_prob), SC)
             pv == acc.pv + RDiv(adjusted_coupon * SC, Pow(SC + discount_rate, year * SC))
             remaining_prob == RDiv(acc.remaining_prob * (SC - conv_prob), SC)
         IN  BondFloorLoop(year + 1, n_years, face_value, coupon_rates,
                           years_to_maturity, discount_rate, conversion_probs,
                           [pv |-> pv, remaining_prob |-> remaining_prob])

\* Mutant: the principal is discounted over n_years, the whole years.
calculate_bond_floor_PrincipalAtCeil(face_value, coupon_rates, years_to_maturity, discount_rate, conversion_probs) ==
    IF years_to_maturity <= 0
    THEN face_value
    ELSE LET acc == BondFloorLoop(1, Ceil(years_to_maturity), face_value,
                        IF coupon_rates.none \/ Len(coupon_rates.v) = 0
                        THEN DefaultCouponRates ELSE coupon_rates.v,
                        years_to_maturity, discount_rate,
                        IF conversion_probs.none
                        THEN [k \in 1..Ceil(years_to_maturity) |-> 0]
                        ELSE conversion_probs.v,
                        [pv |-> 0, remaining_prob |-> SC])
         IN  acc.pv + RDiv(RDiv(face_value * acc.remaining_prob, SC) * SC,
                           Pow(SC + discount_rate, Ceil(years_to_maturity) * SC))

calculate_bond_floor(face_value, coupon_rates, years_to_maturity, discount_rate, conversion_probs) ==
    IF years_to_maturity <= 0
    THEN face_value
    ELSE LET n_years == Ceil(years_to_maturity)
             rates == IF coupon_rates.none \/ Len(coupon_rates.v) = 0
                      THEN DefaultCouponRates ELSE coupon_rates.v
             probs == IF conversion_probs.none
                      THEN [k \in 1..n_years |-> 0] ELSE conversion_probs.v
             acc == BondFloorLoop(1, n_years, face_value, rates, years_to_maturity,
                                  discount_rate, probs,
                                  [pv |-> 0, remaining_prob |-> SC])
         IN  acc.pv + RDiv(RDiv(face_value * acc.remaining_prob, SC) * SC,
                           Pow(SC + discount_rate, years_to_maturity))

calculate_put_value(face_value, put_price, years_to_put, discount_rate, put_probability) ==
    IF years_to_put <= 0
    THEN RDiv(put_price * put_probability, SC)
    ELSE LET put_pv == RDiv(put_price * SC, Pow(SC + discount_rate, years_to_put))
         IN  RDiv(put_pv * put_probability, SC)

calculate_call_option_value(S, K, T, sigma, r) ==
    LET call_value == black_scholes_call(S, K, T, r, sigma)
    IN  RDiv(call_value * P, K) * 10

\* The revision probability with the one-year boundary in the lower tier.
RevisionProbability_OpenTiers(S, K, years_to_put) ==
    LET base_prob == SHENGTANG_CONFIG.downward_revision_base_prob
        by_time == IF years_to_put <= 0 THEN base_prob
                   ELSE IF years_to_put < 1000 THEN RDiv(base_prob * 900, SC)
                   ELSE IF years_to_put <= 2000 THEN RDiv(base_prob * 500, SC)
                   ELSE RDiv(base_prob * 200, SC)
        current_cv == ConversionValue(S, K)
    IN  IF current_cv > 100000 THEN RDiv(by_time * 300, SC)
        ELSE IF current_cv > 90000 THEN RDiv(by_time * 600, SC)
        ELSE by_time

\* The revision probability of calculate_downward_revision_value.
RevisionProbability(S, K, years_to_put) ==
    LET base_prob == SHENGTANG_CONFIG.downward_revision_base_prob
        by_time == IF years_to_put <= 0 THEN base_prob
                   ELSE IF years_to_put <= 1000 THEN RDiv(base_prob * 900, SC)
                   ELSE IF years_to_put <= 2000 THEN RDiv(base_prob * 500, SC)
                   ELSE RDiv(base_prob * 200, SC)
        current_cv == ConversionValue(S, K)
    IN  IF current_cv > 100000 THEN RDiv(by_time * 300, SC)
        ELSE IF current_cv > 90000 THEN RDiv(by_time * 600, SC)
        ELSE by_time

\* The revision value with the strike lowered to 0.8 x S.
calculate_downward_revision_value_DeeperRevision(S, K, T, sigma, r, years_to_put) ==
    LET revision_prob == RevisionProbability(S, K, years_to_put)
        new_K == RDiv(S * 800, SC)
        original_call == calculate_call_option_value(S, K, T, sigma, r)
        revised_call == calculate_call_option_value(S, new_K, T, sigma, r)
        value_increase == Max(0, revised_call - original_call)
    IN  RDiv(value_increase * revision_prob, SC)

calculate_downward_revision_value(S, K, T, sigma, r, years_to_put) ==
    LET revision_prob == RevisionProbability(S, K, years_to_put)
        new_K == RDiv(S * 900, SC)
        original_call == calculate_call_option_value(S, K, T, sigma, r)
        revised_call == calculate_call_option_value(S, new_K, T, sigma, r)
        value_increase == Max(0, revised_call - original_call)
    IN  RDiv(value_increase * revision_prob, SC)

\* The redemption loss measured against the half-year option.
calculate_forced_redemption_loss_HalfYear(S, K, T, sigma, r, call_trigger) ==
    IF T <= 500
    THEN 0
    ELSE LET call_price == RDiv(K * call_trigger, SC)
             prob == NormCdf(D2(S, call_price, T, r, sigma))
             current_cv == ConversionValue(S, K)
             call_prob == IF current_cv > 125000
                          THEN Min(950, RDiv(prob * 1500, SC)) ELSE prob
             remaining_T == Max(0, T - 500)
         IN  IF remaining_T > 0
             THEN LET full_option == calculate_call_option_value(S, K, T, sigma, r)
                      early_option == calculate_call_option_value(S, K, 500, sigma, r)
                  IN  RDiv(Max(0, full_option - early_option) * call_prob, SC)
             ELSE 0

calculate_forced_redemption_loss(S, K, T, sigma, r, call_trigger) ==
    IF T <= 500
    THEN 0
    ELSE LET call_price == RDiv(K * call_trigger, SC)
             prob == NormCdf(D2(S, call_price, T, r, sigma))
             current_cv == ConversionValue(S, K)
             call_prob == IF current_cv > 125000
                          THEN Min(950, RDiv(prob * 1500, SC)) ELSE prob
             remaining_T == Max(0, T - 1000)
         IN  IF remaining_T > 0
             THEN LET full_option == calculate_call_option_value(S, K, T, sigma, r)
                      early_option == calculate_call_option_value(S, K, 1000, sigma, r)
                  IN  RDiv(Max(0, full_option - early_option) * call_prob, SC)
             ELSE 0

\* ----------------------------------------------------------------- inputs
AllColumns ==
    { "price", "stock_price", "convert_price", "years_to_maturity", "rating",
      "premium_rate" }

Row(price, stock_price, convert_price, years_to_maturity, rating, premium_rate) ==
    [ price |-> price, stock_price |-> stock_price, convert_price |-> convert_price,
      years_to_maturity |-> years_to_maturity, rating |-> rating,
      premium_rate |-> premium_rate ]

RatingAA == Rating(KeyAA)

\* The rows of the batch specification: undervalued, at the premium ceiling,
\* overvalued, convert_price 0, stock_price 0, a non-numeric stock_price,
\* above the ceiling, and a row without price and premium_rate.
Bonds ==
    { Row(Num(90000), Num(20000), Num(25000), Num(3000), RatingAA, Num(12000)),
      Row(Num(80000), Num(20000), Num(25000), Num(3000), RatingAA, Num(50000)),
      Row(Num(150000), Num(20000), Num(25000), Num(3000), RatingAA, Num(12000)),
      Row(Num(90000), Num(20000), Num(0), Num(3000), RatingAA, Num(12000)),
      Row(Num(90000), Num(0), Num(25000), Num(3000), RatingAA, Num(12000)),
      Row(Num(90000), NonNumeric, Num(25000), Num(3000), RatingAA, Num(12000)),
      Row(Num(90000), Num(20000), Num(25000), Num(3000), RatingAA, Num(60000)),
      Row(NaN, Num(40000), Num(25000), Num(1500), RatingAA, NaN) }

\* The cells of the single-row specification.
PriceCells == { Num(90000), Num(150000), NaN, NonNumeric }
StockCells == { Num(20000), Num(40000), Num(0), NaN, NonNumeric }
ConvertCells == { Num(25000), Num(0), Num(-1000), NaN, NonNumeric }
YearCells == { Num(3000), Num(400), Num(1500), Num(5500), Num(0), NaN }
RatingCells == { RatingAA, Rating(<< " ", "a", "a", "a", " " >>), Rating(<< "J" >>), NaNRating }
PremiumCells == { Num(12000), Num(50000), NaN }

WideRows ==
    { Row(p, s, k, t, g, m) :
        p \in PriceCells, s \in StockCells, k \in ConvertCells, t \in YearCells,
        g \in RatingCells, m \in PremiumCells }

\* The rows of the numeric specification: stock prices from far below to far
\* above the convert price, maturities on and around every tier boundary, and
\* one row that cannot be valued.
ValueRows ==
    { Row(Num(90000), Num(s), Num(k), Num(t), g, Num(12000)) :
        s \in { 0, 20000, 22500, 23750, 25000, 26000, 32500, 40000 },
        k \in { 22500, 25000 },
        t \in { 0, 400, 500, 1000, 1500, 2500, 3000, 3500, 4000, 5500 },
        g \in { RatingAA, NaNRating } }
    \cup { Row(Num(90000), NonNumeric, Num(25000), Num(3000), RatingAA, Num(12000)) }

Ceilings == { 50000, 12000 }

\* ----------------------------------------------------------- orchestrator
\* The result dict of calculate_shengtang_value as first built (lines 392-401).
ZeroResult ==
    [ bond_floor |-> 0, put_value |-> 0, call_option_value |-> 0,
      revision_value |-> 0, redemption_loss |-> 0, total_value |-> 0,
      current_price |-> Num(0), value_deviation |-> Num(0) ]

\* What a call does: it returns a result, or a TypeError leaves it.
Returns(result) == [raised |-> FALSE, result |-> result]
Raises == [raised |-> TRUE, result |-> ZeroResult]

\* Mutant: the deviation is taken relative to the price.
Deviation_OverPrice(price, total_value) == RDiv((price - total_value) * P, price) * 10

\* The quotient of two floats of this size is never rounded to zero.
NonZero(d, sign) == IF d = 0 THEN sign ELSE d

\* ((price - total_value) / total_value) * 100, in thousandths of a percent.
Deviation(price, total_value) ==
    NonZero(RDiv((price - total_value) * P, total_value) * 10,
            IF price < total_value THEN -1 ELSE IF price > total_value THEN 1 ELSE 0)

\* Lines 421-489: the five components, on validated S, K and T.
ComputeComponents(stock_price, convert_price, years_to_maturity, rating, config) ==
    LET r == config.risk_free_rate
        credit_spread == get_credit_spread(rating)
        discount_rate == r + credit_spread
        sigma == RDiv(config.default_volatility * config.volatility_adjustment, SC)
        years_to_put == Max(0, years_to_maturity - 2000)
        conversion_probs ==
            [year \in 1..(IntPart(years_to_maturity) + 1) |->
                calculate_conversion_probability(
                    stock_price, convert_price, Min(year * SC, years_to_maturity),
                    sigma, config.conversion_threshold)]
    IN  [ bond_floor |-> calculate_bond_floor(100000, NoneList, years_to_maturity,
                                              discount_rate, List(conversion_probs)),
          put_value |-> calculate_put_value(100000, 103000, years_to_put,
                                            discount_rate, 100),
          call_option_value |-> calculate_call_option_value(
                                    stock_price, convert_price, years_to_maturity,
                                    sigma, r),
          revision_value |-> calculate_downward_revision_value(
                                 stock_price, convert_price, years_to_maturity,
                                 sigma, r, years_to_put),
          redemption_loss |-> calculate_forced_redemption_loss(
                                  stock_price, convert_price, years_to_maturity,
                                  sigma, r, 1300) ]

\* The pricing primitives lines 432-489 invoke on validated S, K and T, each
\* with the arguments it is given: the conversion probability of every yearly
\* horizon, the option on the current and on the revised strike, and the
\* options of the redemption loss.
PrimitiveCalls(stock_price, convert_price, years_to_maturity, config) ==
    LET sigma == RDiv(config.default_volatility * config.volatility_adjustment, SC)
    IN  { [ fn |-> "calculate_conversion_probability", S |-> stock_price,
            K |-> convert_price, T |-> Min(year * SC, years_to_maturity),
            sigma |-> sigma ] : year \in 1..(IntPart(years_to_maturity) + 1) }
        \cup { [ fn |-> "calculate_call_option_value", S |-> stock_price,
                 K |-> k, T |-> years_to_maturity, sigma |-> sigma ] :
                 k \in { convert_price, RDiv(stock_price * 900, SC) } }
        \cup { [ fn |-> "calculate_forced_redemption_loss", S |-> stock_price,
                 K |-> RDiv(convert_price * 1300, SC), T |-> years_to_maturity,
                 sigma |-> sigma ] }
        \cup (IF Max(0, years_to_maturity - 1000) > 0
              THEN { [ fn |-> "calculate_call_option_value", S |-> stock_price,
                       K |-> convert_price, T |-> 1000, sigma |-> sigma ] }
              ELSE { })

\* Mutant: the fallback stock price is the convert price itself.
EffectiveStock_NoDiscount(stock_price, convert_price) ==
    IF IsNa(stock_price) \/ stock_price.v <= 0
    THEN (IF convert_price.v > 0 THEN convert_price.v ELSE 10000)
    ELSE stock_price.v

\* Line 415: the stock price a row is valued with.
EffectiveStock(stock_price, convert_price) ==
    IF IsNa(stock_price) \/ stock_price.v <= 0
    THEN (IF convert_price.v > 0 THEN RDiv(convert_price.v * 800, SC) ELSE 10000)
    ELSE stock_price.v

\* Mutant: a maturity of exactly zero years is kept.
EffectiveYears_ZeroKept(years_to_maturity) ==
    IF IsNa(years_to_maturity) \/ years_to_maturity.v < 0
    THEN 100 ELSE years_to_maturity.v

\* Line 419: the years to maturity a row is valued with.
EffectiveYears(years_to_maturity) ==
    IF IsNa(years_to_maturity) \/ years_to_maturity.v <= 0
    THEN 100 ELSE years_to_maturity.v

\* The components are a function of (S, K, T, rating, config) alone: they are
\* computed once for every such tuple the inputs give rise to.
ComponentKeys ==
    { << EffectiveStock(row.stock_price, row.convert_price), row.convert_price.v,
         EffectiveYears(row.years_to_maturity), g, SHENGTANG_CONFIG >> :
        row \in { x \in Bonds \cup WideRows \cup ValueRows :
                    /\ x.stock_price.tag # "str"
                    /\ x.convert_price.tag = "num" /\ x.convert_price.v > 0
                    /\ x.years_to_maturity.tag # "str" },
        g \in RatingCells }
    \cup
    { << s, k.v, 3000, g, SHENGTANG_CONFIG >> :
        s \in { 20000, 40000 }, k \in { c \in ConvertCells : c.tag = "num" /\ c.v > 0 },
        g \in RatingCells }

ComponentTable ==
    [ key \in ComponentKeys |->
        ComputeComponents(key[1], key[2], key[3], key[4], key[5]) ] @@ << >>

Components(stock_price, convert_price, years_to_maturity, rating, config) ==
    IF << stock_price, convert_price, years_to_maturity, rating, config >>
           \in DOMAIN ComponentTable
    THEN ComponentTable[<< stock_price, convert_price, years_to_maturity, rating, config >>]
    ELSE ComputeComponents(stock_price, convert_price, years_to_maturity, rating, config)

\* Mutant: the base value is max(bond_floor, put_value).
TotalValue_MaxOfPut(c) ==
    Max(c.bond_floor, c.put_value) + c.call_option_value
    + c.revision_value - c.redemption_loss

\* Lines 491-493: base_value and total_value.
TotalValue(c) ==
    Max(c.bond_floor, c.bond_floor + c.put_value) + c.call_option_value
    + c.revision_value - c.redemption_loss

\* Lines 448-501: the result dict filled in, and the deviation of lines 498-499.
FillResult(price, c, total_value) ==
    IF total_value > 0 /\ price.tag = "str"
    THEN Raises
    ELSE Returns(
           [ bond_floor |-> c.bond_floor, put_value |-> c.put_value,
             call_option_value |-> c.call_option_value,
             revision_value |-> c.revision_value,
             redemption_loss |-> c.redemption_loss,
             total_value |-> total_value,
             current_price |-> price,
             value_deviation |->
                 IF total_value > 0
                 THEN (IF IsNa(price) THEN NaN
                       ELSE Num(Deviation(price.v, total_value)))
                 ELSE Num(0) ])

Assemble(price, c) == FillResult(price, c, TotalValue(c))

\* Lines 421-501: the valuation proper, on validated S, K and T.
Valuation(price, stock_price, convert_price, years_to_maturity, rating, config) ==
    Assemble(price, Components(stock_price, convert_price, years_to_maturity,
                               rating, config))

\* Mutant: current_price is set only after the validation.
InitialResult_NoEcho(price) == ZeroResult

\* Lines 392-411: the result dict with current_price set, as the early return
\* of line 417 hands it back.
InitialResult(price) == [ZeroResult EXCEPT !.current_price = price]

\* Mutant: the price is read from the premium_rate column.
PriceCell_FromPremium(row, cols) == Get(row, cols, "premium_rate", Num(100000))

\* Line 404: price = row.get('price', 100)
PriceCell(row, cols) == Get(row, cols, "price", Num(100000))

calculate_shengtang_value(row, cols, config) ==
    LET price == PriceCell(row, cols)
        stock_price == Get(row, cols, "stock_price", Num(0))
        convert_price == Get(row, cols, "convert_price", Num(0))
        years_to_maturity == Get(row, cols, "years_to_maturity", Num(3000))
        rating == Get(row, cols, "rating", RatingAA)
        result == InitialResult(price)
        stock_invalid == IsNa(stock_price) \/ stock_price.v <= 0
    IN  IF stock_price.tag = "str" THEN Raises
        ELSE IF stock_invalid /\ convert_price.tag = "str" THEN Raises
        ELSE IF IsNa(convert_price) THEN Returns(result)
        ELSE IF convert_price.tag = "str" THEN Raises
        ELSE IF convert_price.v <= 0 THEN Returns(result)
        ELSE IF years_to_maturity.tag = "str" THEN Raises
        ELSE Valuation(price, EffectiveStock(stock_price, convert_price),
                       convert_price.v, EffectiveYears(years_to_maturity),
                       rating, config)

\* ------------------------------------------------------------------ state
VARIABLES
    df,                 \* the caller's batch: a sequence of rows; a row's index label is its position
    columns,            \* the columns of the DataFrame
    top_n,              \* argument top_n
    max_premium_rate,   \* argument max_premium_rate
    pc,                 \* "valuing" (the loop of lines 529-531), "returned", "raised"
    valuation_results,  \* the list valuation_results
    returned,           \* index labels of the returned DataFrame, in its row order
    error,              \* the exception that left strategy_shengtang, or "none"
    local,              \* the DataFrame the local name df is bound to: which object, and its columns
    shared_config,      \* the parameter table the valuations of independent callers share
    slots,              \* the valuations of independent callers, one per row
    call,               \* a direct call of one of the module's functions: its arguments and return value
    fetch               \* a run of fetch_cb_basic_data: its position, attempt, source calls so far, result

\* What the strategy_shengtang actions leave alone throughout.
aside == << shared_config, slots, call, fetch >>

\* What a direct call of a pricing function leaves alone.
batch == << df, columns, top_n, max_premium_rate, pc, valuation_results, returned,
            error, local, shared_config, slots, fetch >>

vars == << df, columns, top_n, max_premium_rate, pc, valuation_results, returned,
           error, local, shared_config, slots, call, fetch >>

\* What a run of fetch_cb_basic_data leaves alone.
besides == << df, columns, top_n, max_premium_rate, pc, valuation_results, returned,
              error, local, shared_config, slots, call >>

\* No run of fetch_cb_basic_data.
NoFetch == [pc |-> "idle", max_retries |-> 0, attempt |-> 0, result |-> "none", log |-> << >>]

NoCall == [fn |-> "none", args |-> << >>, returned |-> FALSE, value |-> 0]

\* ------------------------------------------------------- strategy_shengtang
\* Mutant: a total value of zero passes the screen.
PassTotalValue_Inclusive(res) == res.total_value >= 0

\* df['st_total_value'] > 0
PassTotalValue(res) == res.total_value > 0

\* Mutant: the sign of the undervaluation test is flipped.
PassDeviation_Flipped(res) == res.value_deviation.tag = "num" /\ res.value_deviation.v > 0

\* df['st_value_deviation'] < 0 (False on NaN)
PassDeviation(res) == res.value_deviation.tag = "num" /\ res.value_deviation.v < 0

\* Mutant: the ceiling itself passes.
PassPremium_Inclusive(row, cols, ceiling) ==
    "premium_rate" \in cols =>
        (row.premium_rate.tag = "num" /\ row.premium_rate.v <= ceiling)

\* df['premium_rate'] < max_premium_rate (False on NaN), applied only when the
\* DataFrame has the column.
PassPremium(row, cols, ceiling) ==
    "premium_rate" \in cols =>
        (row.premium_rate.tag = "num" /\ row.premium_rate.v < ceiling)

\* Index labels left by the three filters of lines 540-547.
Screened(frame, cols, results, ceiling) ==
    { i \in 1..Len(frame) :
        /\ PassTotalValue(results[i])
        /\ PassDeviation(results[i])
        /\ PassPremium(frame[i], cols, ceiling) }

\* Mutant: ascending=False.
sort_values_Descending(labels, results) ==
    { s \in [1..Cardinality(labels) -> labels] :
        /\ \A a, b \in DOMAIN s : a # b => s[a] # s[b]
        /\ \A a, b \in DOMAIN s :
               a < b => results[s[a]].value_deviation.v >= results[s[b]].value_deviation.v }

\* df.sort_values('st_value_deviation', ascending=True) with the default
\* kind='quicksort': ascending by the key, the order of equal keys not fixed.
sort_values(labels, results) ==
    { s \in [1..Cardinality(labels) -> labels] :
        /\ \A a, b \in DOMAIN s : a # b => s[a] # s[b]
        /\ \A a, b \in DOMAIN s :
               a < b => results[s[a]].value_deviation.v <= results[s[b]].value_deviation.v }

\* Mutant: tail(n) in place of head(n).
head_Tail(s, n) == SubSeq(s, Len(s) - Min(n, Len(s)) + 1, Len(s))

\* DataFrame.head(n)
head(s, n) ==
    IF n >= 0 THEN SubSeq(s, 1, Min(n, Len(s)))
    ELSE SubSeq(s, 1, Max(0, Len(s) + n))

\* Mutant: the local name stays bound to the caller's DataFrame.
copy_SameObject(ref, cols) == [ref |-> ref, columns |-> cols]

\* Line 524: df = df.copy() binds the local name to a new DataFrame with the
\* same rows and columns.
copy(ref, cols) == [ref |-> "copy", columns |-> cols]

\* Lines 536-537: one st_ column for every key of the result dicts.
StColumns ==
    { "st_bond_floor", "st_put_value", "st_call_option_value", "st_revision_value",
      "st_redemption_loss", "st_total_value", "st_current_price",
      "st_value_deviation" }

\* Lines 536-537: df[f'st_{col}'] = ... adds the columns to the object the
\* local name is bound to.
Merged(frame) == [frame EXCEPT !.columns = @ \cup StColumns]

\* The columns of object ref once the local frame has been merged into.
ColumnsOf(ref, frame, cols) == IF frame.ref = ref THEN Merged(frame).columns ELSE cols

\* The row the loop of lines 529-531 values next.
NextRow == df[Len(valuation_results) + 1]

\* Line 531: valuation_results.append(result)
AppendResult(outcome) ==
    /\ ~outcome.raised
    /\ valuation_results' = Append(valuation_results, outcome.result)

\* Lines 529-531: one pass of the loop, the valuation returning.
ValueRow ==
    /\ pc = "valuing"
    /\ Len(valuation_results) < Len(df)
    /\ AppendResult(calculate_shengtang_value(NextRow, columns, SHENGTANG_CONFIG))
    /\ UNCHANGED << df, columns, top_n, max_premium_rate, pc, returned, error, local, aside >>

\* Lines 529-531: the valuation raises; nothing in the loop catches it.
ValueRowRaises ==
    /\ pc = "valuing"
    /\ Len(valuation_results) < Len(df)
    /\ calculate_shengtang_value(NextRow, columns, SHENGTANG_CONFIG).raised
    /\ pc' = "raised"
    /\ error' = "TypeError"
    /\ UNCHANGED << df, columns, top_n, max_premium_rate, valuation_results, returned, local, aside >>

\* Lines 533-558 on a batch with rows: merge, screen, sort, head.
ScreenSortReturn ==
    /\ pc = "valuing"
    /\ Len(valuation_results) = Len(df)
    /\ Len(df) > 0
    /\ \E sorted \in sort_values(Screened(df, columns, valuation_results,
                                          max_premium_rate), valuation_results) :
           returned' = head(sorted, top_n)
    /\ local' = Merged(local)
    /\ columns' = ColumnsOf("caller", local, columns)
    /\ pc' = "returned"
    /\ UNCHANGED << df, top_n, max_premium_rate, valuation_results, error, aside >>

\* Lines 533-540 on a batch without rows: pd.DataFrame([]) has no columns, no
\* st_ column is added, and df['st_total_value'] raises KeyError.
EmptyFrameRaises ==
    /\ pc = "valuing"
    /\ Len(df) = 0
    /\ pc' = "raised"
    /\ error' = "KeyError"
    /\ UNCHANGED << df, columns, top_n, max_premium_rate, valuation_results, returned, local, aside >>

Next == ValueRow \/ ValueRowRaises \/ ScreenSortReturn \/ EmptyFrameRaises

\* --------------------------------------------------------- specifications
Batches(rows, n) == UNION { [1..k -> rows] : k \in 0..n }

Start(batches, colsets) ==
    /\ df \in batches
    /\ columns \in colsets
    /\ top_n \in 1..MaxTopN
    /\ max_premium_rate \in Ceilings
    /\ pc = "valuing"
    /\ valuation_results = << >>
    /\ returned = << >>
    /\ error = "none"
    /\ local = copy("caller", columns)
    /\ shared_config = SHENGTANG_CONFIG
    /\ slots = << >>
    /\ call = NoCall
    /\ fetch = NoFetch

\* Batches of up to MaxBatch rows, with and without the premium_rate column.
Init == Start(Batches(Bonds, MaxBatch), { AllColumns, AllColumns \ { "premium_rate" } })

Spec == Init /\ [][Next]_vars

\* Batches of at most one row, every combination of cells, and DataFrames
\* that lack a column.
InitWide ==
    Start(Batches(WideRows, 1),
          { AllColumns, AllColumns \ { "premium_rate" },
            AllColumns \ { "convert_price" }, AllColumns \ { "stock_price" },
            AllColumns \ { "rating" } })

SpecWide == InitWide /\ [][Next]_vars

\* Batches of at most one numeric row.
InitValues == Start(Batches(ValueRows, 1), { AllColumns })

SpecValues == InitValues /\ [][Next]_vars

\* ------------------------------------------------- independent valuations
\* Callers that value the rows of one batch independently of each other: each
\* takes a row, later runs calculate_shengtang_value on it against the shared
\* parameter table, and keeps the dict it gets back.
Todo(row) == [state |-> "todo", row |-> row, outcome |-> Returns(ZeroResult)]

\* Mutant: the valuation stores its volatility back into the table.
TableAfterValuation_StoresSigma(table) ==
    [table EXCEPT !.default_volatility =
        RDiv(table.default_volatility * table.volatility_adjustment, SC)]

\* Lines 377-501: calculate_shengtang_value reads config[...] and assigns to
\* none of its keys.
TableAfterValuation(table) == table

\* Lines 377-501: the valuation assigns to its local names only, never to row.
RowAfterValuation(row) == row

WorkerStart(i) ==
    /\ pc = "workers"
    /\ slots[i].state = "todo"
    /\ slots' = [slots EXCEPT ![i] = [@ EXCEPT !.state = "running", !.row = df[i]]]
    /\ UNCHANGED << df, columns, top_n, max_premium_rate, pc, valuation_results,
                    returned, error, local, shared_config, call, fetch >>

WorkerFinish(i) ==
    /\ pc = "workers"
    /\ slots[i].state = "running"
    /\ slots' = [slots EXCEPT ![i] =
                    [ state |-> "done", row |-> RowAfterValuation(@.row),
                      outcome |-> calculate_shengtang_value(@.row, columns, shared_config) ]]
    /\ shared_config' = TableAfterValuation(shared_config)
    /\ UNCHANGED << df, columns, top_n, max_premium_rate, pc, valuation_results,
                    returned, error, local, call, fetch >>

NextWorkers == \E i \in DOMAIN slots : WorkerStart(i) \/ WorkerFinish(i)

InitWorkers ==
    /\ df \in Batches(Bonds, MaxBatch)
    /\ columns \in { AllColumns, AllColumns \ { "premium_rate" } }
    /\ top_n = 1
    /\ max_premium_rate = 50000
    /\ pc = "workers"
    /\ valuation_results = << >>
    /\ returned = << >>
    /\ error = "none"
    /\ local = copy("caller", columns)
    /\ shared_config = SHENGTANG_CONFIG
    /\ slots = [i \in DOMAIN df |-> Todo(df[i])]
    /\ call = NoCall
    /\ fetch = NoFetch

SpecWorkers == InitWorkers /\ [][NextWorkers]_vars

\* ----------------------------------------------------------- direct calls
\* A call of one function of the module with arguments of the caller's choice.
Pending(fn, args) == [fn |-> fn, args |-> args, returned |-> FALSE, value |-> 0]

Return(value) == call' = [call EXCEPT !.returned = TRUE, !.value = value]

\* Arguments S, K, T, r, sigma of the two pricers: regular and degenerate.
PricerArgs ==
    [ S : { -5000, 0, 20000, 25000, 32500, 40000 }, K : { -5000, 0, 22500, 25000 },
      T : { -1000, 0, 400, 1000, 3000 }, r : { 0, 25 }, sigma : { -100, 0, 385 } ]

\* Arguments S, K, T, sigma, threshold of calculate_conversion_probability.
ProbabilityArgs ==
    [ S : { 1000, 20000, 25000, 32500, 40000 }, K : { 20000, 25000 },
      T : { -1000, 0, 400, 1000, 3000 }, sigma : { -100, 0, 385 },
      threshold : { 100000, 130000 } ]

BlackScholesCallReturns ==
    /\ call.fn = "black_scholes_call" /\ ~call.returned
    /\ Return(black_scholes_call(call.args.S, call.args.K, call.args.T,
                                 call.args.r, call.args.sigma))
    /\ UNCHANGED batch

BlackScholesPutReturns ==
    /\ call.fn = "black_scholes_put" /\ ~call.returned
    /\ Return(black_scholes_put(call.args.S, call.args.K, call.args.T,
                                call.args.r, call.args.sigma))
    /\ UNCHANGED batch

\* Arguments of calculate_bond_floor: coupon schedules absent, empty, shorter
\* and longer than the maturity; probability lists absent, all 0 and mixed.
BondFloorArgs ==
    [ face_value : { 100000 },
      coupon_rates : { NoneList, List(<< >>), List(<< 5 >>), List(<< 10, 20 >>) },
      years_to_maturity : { -1000, 0, 400, 1000, 1500, 3000, 7000 },
      discount_rate : { 0, 40, 50 },
      conversion_probs : { NoneList, List(<< 0 >>), List(<< 0, 0, 0 >>),
                           List(<< 100, 300 >>), List(<< 1000 >>),
                           List(<< 500, 0, 200, 0 >>) } ]

BondFloorReturns ==
    /\ call.fn = "calculate_bond_floor" /\ ~call.returned
    /\ Return(calculate_bond_floor(call.args.face_value, call.args.coupon_rates,
                                    call.args.years_to_maturity, call.args.discount_rate,
                                    call.args.conversion_probs))
    /\ UNCHANGED batch

ConversionProbabilityReturns ==
    /\ call.fn = "calculate_conversion_probability" /\ ~call.returned
    /\ Return(calculate_conversion_probability(call.args.S, call.args.K, call.args.T,
                                               call.args.sigma, call.args.threshold))
    /\ UNCHANGED batch

RedemptionArgs ==
    [ S : { 20000, 25000, 32500, 40000 }, K : { 22500, 25000 },
      T : { -1000, 0, 400, 500, 600, 1000, 1500, 3000, 5500 },
      sigma : { 200, 385 }, r : { 0, 25 }, call_trigger : { 1100, 1300 } ]

ForcedRedemptionLossReturns ==
    /\ call.fn = "calculate_forced_redemption_loss" /\ ~call.returned
    /\ Return(calculate_forced_redemption_loss(call.args.S, call.args.K, call.args.T,
                                               call.args.sigma, call.args.r,
                                               call.args.call_trigger))
    /\ UNCHANGED batch

RevisionArgs ==
    [ S : { 20000, 22500, 25000, 27500, 28000, 32500, 40000 }, K : { 22500, 25000 },
      T : { -1000, 0, 400, 3000 }, sigma : { -100, 0, 385 }, r : { 0, 25 },
      years_to_put : { 0, 500, 1000, 1500, 2000, 3000 } ]

DownwardRevisionValueReturns ==
    /\ call.fn = "calculate_downward_revision_value" /\ ~call.returned
    /\ Return(calculate_downward_revision_value(call.args.S, call.args.K, call.args.T,
                                                call.args.sigma, call.args.r,
                                                call.args.years_to_put))
    /\ UNCHANGED batch

\* ------------------------------------------------ strategy.py and main.py
\* Series.str.contains('ST', case=False, na=False) on a name cell.
ContainsST(name) ==
    /\ name.tag = "str"
    /\ \E k \in 1..(Len(name.v) - 1) :
          name.v[k] \in { "S", "s" } /\ name.v[k + 1] \in { "T", "t" }

\* df[~mask]: the rows whose cell in the column does not contain ST.
DropST(frame, col) ==
    LET Keep(row) == ~ContainsST(row[col]) IN SelectSeq(frame, Keep)

\* filter_by_risk after the stock_name filter of lines 87-89.
RiskFilterStock(frame, cols, filter_st) ==
    IF filter_st /\ "stock_name" \in cols THEN DropST(frame, "stock_name") ELSE frame

filter_by_risk(frame, cols, filter_st, filter_forced_redemption) ==
    LET kept == RiskFilterStock(frame, cols, filter_st)
    IN  IF filter_st /\ "cb_name" \in cols THEN DropST(kept, "cb_name") ELSE kept

\* The redeem_status values of a bond whose forced redemption is announced.
AnnouncedStatus == { "redemption announced", "redemption to be announced" }

RiskRows ==
    [ stock_name : { Rating(<< "S", "T", "x" >>), Rating(<< "A", "B" >>), NaNRating },
      cb_name : { Rating(<< "A", "s", "t" >>), Rating(<< "A", "B" >>) },
      redeem_status : { "redemption announced", "none" } ]

RiskFrames == { << a >> : a \in RiskRows } \cup { << a, b >> : a, b \in RiskRows }

RiskArgs ==
    [ df : RiskFrames,
      columns : { { "stock_name", "cb_name", "redeem_status" }, { "cb_name", "redeem_status" } },
      filter_st : BOOLEAN, filter_forced_redemption : BOOLEAN ]

FilterByRiskReturns ==
    /\ call.fn = "filter_by_risk" /\ ~call.returned
    /\ Return(filter_by_risk(call.args.df, call.args.columns, call.args.filter_st,
                             call.args.filter_forced_redemption))
    /\ UNCHANGED batch

\* The position of the first row with the smallest double_low.
FirstSmallest(frame) ==
    CHOOSE i \in DOMAIN frame :
        /\ \A j \in DOMAIN frame : frame[i].double_low.v <= frame[j].double_low.v
        /\ \A j \in 1..(i - 1) : frame[j].double_low.v > frame[i].double_low.v

Without(frame, i) == SubSeq(frame, 1, i - 1) \o SubSeq(frame, i + 1, Len(frame))

\* DataFrame.nsmallest(n, 'double_low'): ascending, ties in the frame's order.
RECURSIVE nsmallest(_, _)
nsmallest(frame, n) ==
    IF n <= 0 \/ frame = << >> THEN << >>
    ELSE << frame[FirstSmallest(frame)] >>
             \o nsmallest(Without(frame, FirstSmallest(frame)), n - 1)

Below(cell, bound) == cell.tag = "num" /\ cell.v < bound
Above(cell, bound) == cell.tag = "num" /\ cell.v > bound

\* Lines 218-229: the conditions of strategy_value_hunting.
ValueConditions(row, cols) ==
    /\ "price" \in cols => Below(row.price, 105000)
    /\ "convert_value" \in cols => Above(row.convert_value, 95000)
    /\ "premium_rate" \in cols => Below(row.premium_rate, 15000)

strategy_value_hunting(frame, cols, n) ==
    LET Pass(row) == ValueConditions(row, cols)
        result == SelectSeq(frame, Pass)
    IN  IF "double_low" \in cols /\ Len(result) > 0
        THEN nsmallest(result, Min(n, Len(result)))
        ELSE result

\* main.py line 341: the entry 'value' of strategy_map.
strategy_map_value(d, n) ==
    LET Pass(row) == Below(row.price, 105000) /\ Below(row.premium_rate, 15000)
    IN  nsmallest(SelectSeq(d, Pass), n)

ValueBond(price, convert_value, premium_rate, double_low) ==
    [ price |-> Num(price), convert_value |-> Num(convert_value),
      premium_rate |-> Num(premium_rate), double_low |-> Num(double_low) ]

ValueBonds ==
    { ValueBond(100000, 98000, 2000, 102000), ValueBond(100000, 90000, 11100, 111100),
      ValueBond(110000, 100000, 10000, 120000), ValueBond(104000, 96000, 8300, 112300),
      ValueBond(100000, 85000, 17600, 117600), ValueBond(99000, 96000, 3000, 102000) }

ValueFrames ==
    { f \in UNION { [1..n -> ValueBonds] : n \in 1..3 } :
        \A a, b \in DOMAIN f : a # b => f[a] # f[b] }

ValueColumns == { "price", "convert_value", "premium_rate", "double_low" }

ValueArgs ==
    [ df : ValueFrames, columns : { ValueColumns, ValueColumns \ { "convert_value" } },
      top_n : 1..MaxTopN ]

ValueHuntingReturns ==
    /\ call.fn = "strategy_value_hunting" /\ ~call.returned
    /\ Return(strategy_value_hunting(call.args.df, call.args.columns, call.args.top_n))
    /\ UNCHANGED batch

MainValueReturns ==
    /\ call.fn = "main --strategy value" /\ ~call.returned
    /\ Return(strategy_map_value(call.args.df, call.args.top_n))
    /\ UNCHANGED batch

\* Configurations a caller passes: the module's own, one with another
\* risk-free rate, one with another spread table, one with another base
\* probability of revision.
Configs ==
    { SHENGTANG_CONFIG,
      [SHENGTANG_CONFIG EXCEPT !.risk_free_rate = 35],
      [SHENGTANG_CONFIG EXCEPT !.credit_spread = [k \in DOMAIN @ |-> @[k] + 10]],
      [SHENGTANG_CONFIG EXCEPT !.downward_revision_base_prob = 500] }

ValuationArgs ==
    [ row : { Row(Num(90000), Num(20000), Num(25000), Num(3000), RatingAA, Num(12000)),
              Row(Num(90000), Num(40000), Num(25000), Num(5500), RatingAA, Num(12000)),
              Row(Num(90000), Num(20000), Num(0), Num(3000), RatingAA, Num(12000)) },
      config : Configs ]

ShengtangValueReturns ==
    /\ call.fn = "calculate_shengtang_value" /\ ~call.returned
    /\ Return(calculate_shengtang_value(call.args.row, AllColumns, call.args.config))
    /\ UNCHANGED batch

NextCalls ==
    \/ FilterByRiskReturns
    \/ ValueHuntingReturns
    \/ MainValueReturns
    \/ ShengtangValueReturns
    \/ BlackScholesCallReturns
    \/ BlackScholesPutReturns
    \/ ConversionProbabilityReturns
    \/ BondFloorReturns
    \/ ForcedRedemptionLossReturns
    \/ DownwardRevisionValueReturns

Calls ==
    { Pending("black_scholes_call", a) : a \in PricerArgs }
    \cup { Pending("black_scholes_put", a) : a \in PricerArgs }
    \cup { Pending("calculate_conversion_probability", a) : a \in ProbabilityArgs }
    \cup { Pending("calculate_bond_floor", a) : a \in BondFloorArgs }
    \cup { Pending("calculate_forced_redemption_loss", a) : a \in RedemptionArgs }
    \cup { Pending("calculate_downward_revision_value", a) : a \in RevisionArgs }
    \cup { Pending("calculate_shengtang_value", a) : a \in ValuationArgs }
    \cup { Pending("filter_by_risk", a) : a \in RiskArgs }
    \cup { Pending("strategy_value_hunting", a) : a \in ValueArgs }
    \cup { Pending("main --strategy value", a) : a \in ValueArgs }

InitCalls ==
    /\ df = << >>
    /\ columns = AllColumns
    /\ top_n = 1
    /\ max_premium_rate = 50000
    /\ pc = "calls"
    /\ valuation_results = << >>
    /\ returned = << >>
    /\ error = "none"
    /\ local = copy("caller", columns)
    /\ shared_config = SHENGTANG_CONFIG
    /\ slots = << >>
    /\ call \in Calls
    /\ fetch = NoFetch

SpecCalls == InitCalls /\ [][NextCalls]_vars

\* ------------------------------------------------------ data_fetcher.py
\* config.MAX_RETRIES
MAX_RETRIES == 3

\* What a source call does: a non-empty DataFrame, an empty one, None, or an
\* exception.
Outcomes == { "data", "empty", "none", "raise" }

Logged(source, outcome) == Append(fetch.log, [source |-> source, outcome |-> outcome])

\* Mutant: the sleep follows every attempt that raised, the last one too.
PrimaryAttempt_SleepAfterLast(outcome) ==
    /\ fetch.pc = "loop"
    /\ fetch.attempt < fetch.max_retries
    /\ fetch' =
          IF outcome = "data"
          THEN [fetch EXCEPT !.pc = "returned", !.result = "data",
                             !.log = Logged("primary", outcome)]
          ELSE IF outcome = "raise"
          THEN [fetch EXCEPT !.pc = "sleep", !.log = Logged("primary", outcome)]
          ELSE [fetch EXCEPT !.attempt = @ + 1, !.log = Logged("primary", outcome)]
    /\ UNCHANGED besides

\* Lines 24-37: one pass of the loop up to the sleep: ak.bond_cov_comparison()
\* returns or raises.
PrimaryAttempt(outcome) ==
    /\ fetch.pc = "loop"
    /\ fetch.attempt < fetch.max_retries
    /\ fetch' =
          IF outcome = "data"
          THEN [fetch EXCEPT !.pc = "returned", !.result = "data",
                             !.log = Logged("primary", outcome)]
          ELSE IF outcome = "raise" /\ fetch.attempt < fetch.max_retries - 1
          THEN [fetch EXCEPT !.pc = "sleep", !.log = Logged("primary", outcome)]
          ELSE [fetch EXCEPT !.attempt = @ + 1, !.log = Logged("primary", outcome)]
    /\ UNCHANGED besides

\* Line 37: time.sleep(config.RETRY_INTERVAL), then the next pass.
Sleep ==
    /\ fetch.pc = "sleep"
    /\ fetch' = [fetch EXCEPT !.pc = "loop", !.attempt = @ + 1,
                              !.log = Logged("sleep", "slept")]
    /\ UNCHANGED besides

\* Lines 39-49: the loop is over; ak.bond_cb_jsl() returns or raises.
Fallback(outcome) ==
    /\ fetch.pc = "loop"
    /\ fetch.attempt >= fetch.max_retries
    /\ fetch' = [fetch EXCEPT !.pc = "returned",
                              !.result = IF outcome = "data" THEN "data" ELSE "None",
                              !.log = Logged("fallback", outcome)]
    /\ UNCHANGED besides

NextFetch ==
    \/ \E outcome \in Outcomes : PrimaryAttempt(outcome)
    \/ Sleep
    \/ \E outcome \in Outcomes : Fallback(outcome)

InitFetch ==
    /\ df = << >>
    /\ columns = AllColumns
    /\ top_n = 1
    /\ max_premium_rate = 50000
    /\ pc = "fetching"
    /\ valuation_results = << >>
    /\ returned = << >>
    /\ error = "none"
    /\ local = copy("caller", columns)
    /\ shared_config = SHENGTANG_CONFIG
    /\ slots = << >>
    /\ call = NoCall
    /\ fetch \in { [NoFetch EXCEPT !.pc = "loop", !.max_retries = m, !.result = "pending"] :
                      m \in 0..MAX_RETRIES }

\* The function runs on: a source call returns or raises, a sleep ends.
SpecFetch == InitFetch /\ [][NextFetch]_vars /\ WF_vars(NextFetch)

\* ------------------------------------------------------------------ claims
Returned == pc = "returned"
ReturnedLabels == { returned[k] : k \in DOMAIN returned }
Valued == 1..Len(valuation_results)

\* The valuation of row i computed on its own, and its key in the ranking.
Alone(i) == calculate_shengtang_value(df[i], columns, SHENGTANG_CONFIG)
Key(i) == valuation_results[i].value_deviation.v

Undervalued(res) ==
    /\ res.total_value > 0
    /\ res.value_deviation.tag = "num"
    /\ res.value_deviation.v < 0

BelowCeiling(row) ==
    "premium_rate" \in columns =>
        (row.premium_rate.tag = "num" /\ row.premium_rate.v < max_premium_rate)

\* The rows of the batch, as a set, that are undervalued and pass the premium filter.
QualifyingRows ==
    { r \in { df[i] : i \in DOMAIN df } :
        /\ ~calculate_shengtang_value(r, columns, SHENGTANG_CONFIG).raised
        /\ Undervalued(calculate_shengtang_value(r, columns, SHENGTANG_CONFIG).result)
        /\ BelowCeiling(r) }

\* C1: with top_n at least the batch size, the returned records are exactly the
\* input records with totalValue > 0, valueDeviation < 0 and a premium rate that
\* passes the filter; as a set of records it depends only on the set of input
\* records, not on their order.
C1_ExactScreen ==
    (Returned /\ top_n >= Len(df)) =>
        /\ ReturnedLabels = { i \in DOMAIN df : Undervalued(Alone(i).result) /\ BelowCeiling(df[i]) }
        /\ { df[i] : i \in ReturnedLabels } = QualifyingRows

C1_Witness ==
    /\ Returned /\ top_n >= Len(df)
    /\ Len(returned) >= 1 /\ Len(returned) < Len(df)
    /\ \E i \in DOMAIN df : Alone(i).result.total_value > 0 /\ Alone(i).result.value_deviation.v > 0
    /\ \E i \in DOMAIN df : Undervalued(Alone(i).result) /\ ~BelowCeiling(df[i])

\* C2: the returned list is ascending by valueDeviation: each record's deviation
\* is at most that of the record after it.
C2_Ascending ==
    Returned => \A k \in 1..(Len(returned) - 1) : Key(returned[k]) <= Key(returned[k + 1])

C2_Witness ==
    /\ Returned /\ Len(returned) >= 2
    /\ Key(returned[1]) < Key(returned[2])
    /\ returned[1] > returned[2]

\* C3: records with equal valueDeviation keep their input order in the output.
C3_StableTies ==
    Returned =>
        \A a, b \in DOMAIN returned :
            (a < b /\ Key(returned[a]) = Key(returned[b])) => returned[a] < returned[b]

\* C4: for positive top_n the output has min(top_n, screened) records and they
\* are the smallest by valueDeviation: no returned record has a larger deviation
\* than a screened record that was left out.
LeftOut ==
    { i \in DOMAIN df : Undervalued(valuation_results[i]) /\ BelowCeiling(df[i]) }
        \ ReturnedLabels

C4_TopN ==
    Returned =>
        /\ Len(returned) = Min(top_n, Cardinality(ReturnedLabels \cup LeftOut))
        /\ Cardinality(ReturnedLabels) = Len(returned)
        /\ Len(returned) <= top_n
        /\ \A i \in ReturnedLabels : \A j \in LeftOut : Key(i) <= Key(j)

C4_Witness ==
    /\ Returned /\ Len(returned) = top_n
    /\ \E i \in ReturnedLabels : \E j \in LeftOut : Key(i) < Key(j)

\* C5 as claimed: with the premium_rate column present, an undervalued record
\* whose premiumRate does not exceed the ceiling, in particular one exactly at
\* the ceiling, is kept.
C5_KeptAtCeiling ==
    (Returned /\ top_n >= Len(df) /\ "premium_rate" \in columns) =>
        \A i \in DOMAIN df :
            ( /\ Undervalued(valuation_results[i])
              /\ df[i].premium_rate.tag = "num"
              /\ df[i].premium_rate.v <= max_premium_rate ) => i \in ReturnedLabels

\* C5 amended: with the premium_rate column present a record is kept only if its
\* premiumRate is strictly below the ceiling; an undervalued record strictly
\* below it is kept, and one exactly at the ceiling (or with no premium rate) is
\* discarded.
C5_StrictCeiling ==
    (Returned /\ "premium_rate" \in columns) =>
        /\ \A i \in ReturnedLabels :
               df[i].premium_rate.tag = "num" /\ df[i].premium_rate.v < max_premium_rate
        /\ \A i \in DOMAIN df :
               ( /\ top_n >= Len(df)
                 /\ Undervalued(valuation_results[i])
                 /\ df[i].premium_rate.tag = "num"
                 /\ df[i].premium_rate.v < max_premium_rate ) => i \in ReturnedLabels

C5_Witness ==
    /\ Returned /\ top_n >= Len(df) /\ "premium_rate" \in columns
    /\ returned # << >>
    /\ \E i \in DOMAIN df :
           /\ Undervalued(valuation_results[i])
           /\ df[i].premium_rate = Num(max_premium_rate)
           /\ i \notin ReturnedLabels

\* The cells a row is valued with (a missing column gives the default).
PriceOf(i) == Get(df[i], columns, "price", Num(100000))
StockOf(i) == Get(df[i], columns, "stock_price", Num(0))
ConvertOf(i) == Get(df[i], columns, "convert_price", Num(0))

InvalidConvert(i) == ConvertOf(i).tag = "nan" \/ (ConvertOf(i).tag = "num" /\ ConvertOf(i).v <= 0)
ValidConvert(i) == ConvertOf(i).tag = "num" /\ ConvertOf(i).v > 0
InvalidStock(i) == StockOf(i).tag = "nan" \/ (StockOf(i).tag = "num" /\ StockOf(i).v <= 0)

ValueFieldsZero(res) ==
    /\ res.bond_floor = 0 /\ res.put_value = 0 /\ res.call_option_value = 0
    /\ res.revision_value = 0 /\ res.redemption_loss = 0 /\ res.total_value = 0
    /\ res.value_deviation = Num(0)

AllFieldsZero(res) == ValueFieldsZero(res) /\ res.current_price = Num(0)

\* C6 as claimed: a record whose convertPrice is missing, NaN or not above 0 gets
\* a result with every field 0, currentPrice included, and is in no output.
C6_AllZero ==
    \A i \in Valued :
        InvalidConvert(i) =>
            /\ AllFieldsZero(valuation_results[i])
            /\ Returned => i \notin ReturnedLabels

\* C6 amended: such a record gets a result whose bondFloor, putValue,
\* callOptionValue, revisionValue, redemptionLoss, totalValue and valueDeviation
\* are 0 while currentPrice echoes the record's price, and is in no output.
C6_ZeroButPrice ==
    \A i \in Valued :
        InvalidConvert(i) =>
            /\ ValueFieldsZero(valuation_results[i])
            /\ valuation_results[i].current_price = PriceOf(i)
            /\ Returned => i \notin ReturnedLabels

C6_Witness ==
    /\ Returned /\ returned = << >>
    /\ \E i \in Valued :
           /\ InvalidConvert(i)
           /\ valuation_results[i].current_price = Num(90000)
           /\ ValueFieldsZero(valuation_results[i])

\* C7 as claimed: a record whose stockPrice is missing or not above 0 is not
\* valued, whatever its convertPrice: every field is 0 and it is not ranked.
C7_NotValued ==
    \A i \in Valued :
        InvalidStock(i) =>
            /\ ValueFieldsZero(valuation_results[i])
            /\ Returned => i \notin ReturnedLabels

\* The row with its stock_price cell replaced.
WithStock(row, cell) == [row EXCEPT !.stock_price = cell]

\* C7 amended: a record whose stockPrice is missing, NaN or not above 0 is
\* valued whenever its convertPrice is above 0, with 0.8 x convertPrice as the
\* stock price: its result is that of the same record carrying that stock
\* price, and it is ranked when undervalued and under the ceiling; only when the
\* convertPrice is invalid too are the value fields 0 and the record excluded.
C7_Fallback ==
    \A i \in Valued :
        InvalidStock(i) =>
            /\ ValidConvert(i) =>
                   /\ valuation_results[i] =
                          calculate_shengtang_value(
                              WithStock(df[i], Num((ConvertOf(i).v * 8) \div 10)),
                              columns \cup { "stock_price" }, SHENGTANG_CONFIG).result
                   /\ (Returned /\ top_n >= Len(df) /\ Undervalued(valuation_results[i])
                         /\ BelowCeiling(df[i])) => i \in ReturnedLabels
            /\ InvalidConvert(i) =>
                   /\ ValueFieldsZero(valuation_results[i])
                   /\ Returned => i \notin ReturnedLabels

C7_Witness ==
    /\ Returned /\ returned = << 1 >>
    /\ InvalidStock(1) /\ ValidConvert(1)
    /\ valuation_results[1].call_option_value > 0

\* C8: a batch with exactly one record whose valuation fails still completes.
Malformed(i) == Alone(i).raised

C8_NoAbort ==
    Cardinality({ i \in DOMAIN df : Malformed(i) }) = 1 => pc # "raised"

\* C9: a batch in which no record passes the screen, the batch without records
\* included, returns an empty list and raises nothing.
NonePasses ==
    \A i \in DOMAIN df :
        ~Malformed(i) /\ ~(Undervalued(Alone(i).result) /\ BelowCeiling(df[i]))

C9_EmptyResult ==
    NonePasses => (pc # "raised" /\ (Returned => returned = << >>))

Abs(x) == IF x < 0 THEN -x ELSE x

\* res.value_deviation is ((current_price - total_value) / total_value) * 100,
\* to the resolution of the arithmetic.
IsDeviationOf(res) ==
    /\ res.value_deviation.tag = "num"
    /\ 2 * Abs(RDiv(res.value_deviation.v, 10) * res.total_value
               - (res.current_price.v - res.total_value) * P) <= res.total_value

\* C11: when totalValue > 0 the deviation is (currentPrice - totalValue) /
\* totalValue x 100 (NaN for a NaN price), negative exactly when the price is
\* below totalValue, and -10 for totalValue 100 and price 90; when totalValue
\* <= 0 the deviation stays 0 and the record is never returned.
C11_DeviationFormula ==
    /\ Deviation(90000, 100000) = -10000
    /\ \A i \in Valued :
           /\ (valuation_results[i].total_value > 0
                 /\ valuation_results[i].current_price.tag = "num") =>
                  /\ valuation_results[i].current_price = PriceOf(i)
                  /\ IsDeviationOf(valuation_results[i])
                  /\ (valuation_results[i].value_deviation.v < 0
                        <=> PriceOf(i).v < valuation_results[i].total_value)
           /\ (valuation_results[i].total_value > 0
                 /\ valuation_results[i].current_price.tag = "nan") =>
                  valuation_results[i].value_deviation = NaN
           /\ valuation_results[i].total_value <= 0 =>
                  /\ valuation_results[i].value_deviation = Num(0)
                  /\ Returned => i \notin ReturnedLabels

C11_Witness ==
    /\ Returned
    /\ \E i \in ReturnedLabels :
           /\ PriceOf(i).v < valuation_results[i].total_value
           /\ valuation_results[i].value_deviation.v < -5000
    /\ \E i \in Valued :
           /\ valuation_results[i].total_value > 0
           /\ valuation_results[i].value_deviation.v > 5000
    /\ \E i \in Valued :
           /\ valuation_results[i].total_value = 0
           /\ valuation_results[i].value_deviation = Num(0)

\* The rating cell of row i when the DataFrame has the column.
RatingOf(i) == df[i].rating

\* The row with its rating cell replaced, valued with the rating column present.
ValuedWithRating(i, cell) ==
    calculate_shengtang_value([df[i] EXCEPT !.rating = cell],
                              columns \cup { "rating" }, SHENGTANG_CONFIG).result

\* The spread table as the claim gives it, in thousandths.
SpreadOfKey(key) ==
    CASE key = << "A", "A", "A" >> -> 5   [] key = << "A", "A", "+" >> -> 10
      [] key = << "A", "A" >> -> 15       [] key = << "A", "A", "-" >> -> 20
      [] key = << "A", "+" >> -> 30       [] key = << "A" >> -> 40
      [] key = << "A", "-" >> -> 50       [] key = << "B", "B", "B" >> -> 70
      [] OTHER -> 25

\* put_value as the valuation of row i gives it under a credit spread.
PutValueUnder(i, spread) ==
    calculate_put_value(100000, 103000,
        Max(0, EffectiveYears(Get(df[i], columns, "years_to_maturity", Num(3000))) - 2000),
        25 + spread, 100)

\* The rows whose valuation ran to the end.
FullyValued == { i \in Valued : ValidConvert(i) }

\* What C12 says of the rows that carry a rating cell: NaN or a token outside
\* the table gives the default spread, a key after trimming and upper-casing
\* gives that key's spread.
RatingCellRule(i) ==
    /\ RatingOf(i).tag = "nan" =>
           valuation_results[i].put_value = PutValueUnder(i, 25)
    /\ RatingOf(i).tag = "str" =>
           /\ valuation_results[i].put_value =
                  PutValueUnder(i, SpreadOfKey(Upper(Strip(RatingOf(i).v))))
           /\ valuation_results[i] = ValuedWithRating(i, Rating(Upper(Strip(RatingOf(i).v))))
           /\ SpreadOfKey(Upper(Strip(RatingOf(i).v))) = 25 =>
                  valuation_results[i] = ValuedWithRating(i, NaNRating)

\* C12 as claimed: a record without a rating field is valued with the default
\* spread 0.025, as one whose rating is NaN.
C12_AbsentIsDefault ==
    \A i \in FullyValued :
        IF "rating" \in columns THEN RatingCellRule(i)
        ELSE /\ valuation_results[i].put_value = PutValueUnder(i, 25)
             /\ valuation_results[i] = ValuedWithRating(i, NaNRating)

\* C12 amended: a record whose rating is NaN or a token outside the table is
\* valued with riskFreeRate + 0.025, one whose rating after trimming and
\* upper-casing is a table key with riskFreeRate + that key's spread, and a
\* record without a rating field is valued as rating AA, with riskFreeRate +
\* 0.015.
C12_AbsentIsAA ==
    \A i \in FullyValued :
        IF "rating" \in columns THEN RatingCellRule(i)
        ELSE /\ valuation_results[i].put_value = PutValueUnder(i, 15)
             /\ valuation_results[i] = ValuedWithRating(i, RatingAA)

C12_Witness ==
    /\ "rating" \notin columns
    /\ 1 \in FullyValued
    /\ valuation_results[1].put_value = PutValueUnder(1, 15)
    /\ valuation_results[1].put_value # PutValueUnder(1, 25)
    /\ valuation_results[1] # ValuedWithRating(1, NaNRating)
    /\ valuation_results[1] # ValuedWithRating(1, Rating(<< "A", "A", "A" >>))

\* The row with its premium_rate cell replaced.
WithPremium(row, cell) == [row EXCEPT !.premium_rate = cell]

\* C13: two records that differ only in premiumRate, or in having one, get the
\* same ValuationResult; premiumRate decides only whether the record stays in
\* the filter.
C13_PremiumNotValued ==
    \A i \in Valued :
        \A cell \in PremiumCells \cup { Num(0), Num(60000), Num(90000) } :
            /\ calculate_shengtang_value(WithPremium(df[i], cell),
                    columns \cup { "premium_rate" }, SHENGTANG_CONFIG)
                   = Returns(valuation_results[i])
            /\ calculate_shengtang_value(WithPremium(df[i], cell),
                    columns \ { "premium_rate" }, SHENGTANG_CONFIG)
                   = Returns(valuation_results[i])

C13_Witness ==
    /\ Returned /\ returned = << >>
    /\ "premium_rate" \in columns
    /\ Undervalued(valuation_results[1])
    /\ df[1].premium_rate = Num(50000)
    /\ valuation_results[1].current_price = Num(90000)
    /\ calculate_shengtang_value(WithPremium(df[1], Num(12000)), columns,
                                 SHENGTANG_CONFIG) = Returns(valuation_results[1])

C15_InputUnchanged == [][df' = df /\ columns' = columns]_vars

C15_Witness ==
    /\ Returned
    /\ local.ref = "copy"
    /\ StColumns \subseteq local.columns
    /\ columns \cap StColumns = { }
    /\ Len(df) = 3 /\ Len(returned) = 2
    /\ returned[1] > returned[2]

\* The direct call that has returned, by function.
Called(fn) == call.fn = fn /\ call.returned

Degenerate(a) == a.T <= 0 \/ a.sigma <= 0 \/ a.S <= 0 \/ a.K <= 0

\* C16: black_scholes_call and black_scholes_put never return a negative
\* value, in the regular branch and in the degenerate one.
C16_NonNegative ==
    (Called("black_scholes_call") \/ Called("black_scholes_put")) => call.value >= 0

C16_Witness ==
    /\ Called("black_scholes_put")
    /\ ~Degenerate(call.args)
    /\ call.args.S > call.args.K
    /\ call.value > 0

\* C17: when T <= 0 or sigma <= 0 or S <= 0 or K <= 0, black_scholes_call
\* returns exactly max(0, S - K) and black_scholes_put exactly max(0, K - S);
\* so does a call with T = 0 for every sigma >= 0.
C17_DegenerateGuard ==
    /\ (Called("black_scholes_call") /\ Degenerate(call.args)) =>
           call.value = (IF call.args.S > call.args.K
                         THEN call.args.S - call.args.K ELSE 0)
    /\ (Called("black_scholes_put") /\ Degenerate(call.args)) =>
           call.value = (IF call.args.K > call.args.S
                         THEN call.args.K - call.args.S ELSE 0)

C17_Witness ==
    /\ Called("black_scholes_call")
    /\ call.args.T = 0 /\ call.args.sigma > 0
    /\ call.args.K > 0 /\ call.args.S > call.args.K
    /\ call.value = call.args.S - call.args.K

\* (S / K) x 100 >= threshold, cross-multiplied (threshold in thousandths of a
\* percent, K > 0).
AtOrAboveThreshold(a) == a.S * 100 >= (a.threshold \div SC) * a.K

\* C18: for S > 0 and K > 0 calculate_conversion_probability returns a
\* probability in [0, 1]; when T <= 0 or sigma <= 0 it returns exactly 1 if
\* (S / K) x 100 >= threshold and exactly 0 otherwise.
C18_Probability ==
    Called("calculate_conversion_probability") =>
        /\ call.value >= 0 /\ call.value <= SC
        /\ (call.args.T <= 0 \/ call.args.sigma <= 0) =>
               call.value = (IF AtOrAboveThreshold(call.args) THEN SC ELSE 0)

C18_Witness ==
    /\ Called("calculate_conversion_probability")
    /\ call.args.T <= 0 /\ call.args.sigma > 0
    /\ call.args.S * 100 = (call.args.threshold \div SC) * call.args.K
    /\ call.value = SC

\* The coupon schedule in force: the default one when none or an empty one is
\* given; the rate of year y, the last rate repeated past the schedule's end.
ScheduleOf(a) ==
    IF a.coupon_rates.none \/ a.coupon_rates.v = << >>
    THEN << 4, 6, 10, 15, 20, 25 >> ELSE a.coupon_rates.v

RateOfYear(a, y) ==
    IF y <= Len(ScheduleOf(a)) THEN ScheduleOf(a)[y] ELSE ScheduleOf(a)[Len(ScheduleOf(a))]

\* x discounted over t years (t in thousandths) at the call's discount rate.
Discounted(a, x, t) == RDiv(x * SC, Pow(SC + a.discount_rate, t))

\* The whole years y with 1 <= y <= yearsToMaturity.
CouponYears(a) == 1..(a.years_to_maturity \div SC)

\* Sum of f over the years in the set.
RECURSIVE SumOver(_, _)
SumOver(years, f) ==
    IF years = { } THEN 0
    ELSE LET y == CHOOSE z \in years : TRUE IN f[y] + SumOver(years \ { y }, f)

\* The plain fixed-income present value: every coupon and the principal,
\* unweighted.
PlainPresentValue(a) ==
    SumOver(CouponYears(a),
            [y \in CouponYears(a) |->
                Discounted(a, RDiv(a.face_value * RateOfYear(a, y), SC), y * SC)])
    + Discounted(a, a.face_value, a.years_to_maturity)

AllProbabilitiesZero(a) ==
    a.conversion_probs.none
        \/ \A k \in DOMAIN a.conversion_probs.v : a.conversion_probs.v[k] = 0

\* C19: with every conversion probability 0, or no list given, the bond
\* floor is the plain present value: the coupons of the whole years up to
\* maturity and the principal over yearsToMaturity, each discounted, none
\* weighted.
C19_PlainPresentValue ==
    (Called("calculate_bond_floor") /\ call.args.years_to_maturity > 0
        /\ AllProbabilitiesZero(call.args)) =>
        call.value = PlainPresentValue(call.args)

C19_Witness ==
    /\ Called("calculate_bond_floor")
    /\ call.args.years_to_maturity = 1500
    /\ call.args.conversion_probs = List(<< 0, 0, 0 >>)
    /\ call.args.discount_rate > 0
    /\ call.value = PlainPresentValue(call.args)
    /\ call.value < call.args.face_value

\* The probability list in force (zeros when none is given) and the probability
\* of year y, the last one repeated past the list's end.
ProbabilityOfYear(a, y) ==
    IF a.conversion_probs.none THEN 0
    ELSE IF y <= Len(a.conversion_probs.v) THEN a.conversion_probs.v[y]
    ELSE a.conversion_probs.v[Len(a.conversion_probs.v)]

\* remainingProb after the update of year y: 1 before the first year.
RECURSIVE RemainingAfter(_, _)
RemainingAfter(a, y) ==
    IF y = 0 THEN SC
    ELSE RDiv(RemainingAfter(a, y - 1) * (SC - ProbabilityOfYear(a, y)), SC)

\* The coupon term of year y: the coupon weighted by the remainingProb of
\* before the year's update and by (1 - convProb[y]), discounted over y years.
CouponTerm(a, y) ==
    Discounted(a,
        RDiv(RDiv(RDiv(a.face_value * RateOfYear(a, y), SC) * RemainingAfter(a, y - 1), SC)
             * (SC - ProbabilityOfYear(a, y)), SC),
        y * SC)

\* The principal term: face x remainingProb of after the last coupon year,
\* discounted over yearsToMaturity.
PrincipalTerm(a) ==
    Discounted(a,
        RDiv(a.face_value * RemainingAfter(a, a.years_to_maturity \div SC), SC),
        a.years_to_maturity)

\* C20: calculate_bond_floor returns face when yearsToMaturity <= 0; otherwise
\* it is one coupon term for every whole year y with 1 <= y <= yearsToMaturity
\* and none beyond, each at the schedule's rate of year y (the last rate
\* repeated) and weighted by remainingProb x (1 - convProb[y]) taken before
\* remainingProb is updated, plus one principal term face x remainingProb
\* discounted over yearsToMaturity.
C20_BondFloorTerms ==
    Called("calculate_bond_floor") =>
        call.value =
            (IF call.args.years_to_maturity <= 0 THEN call.args.face_value
             ELSE SumOver(CouponYears(call.args),
                          [y \in CouponYears(call.args) |-> CouponTerm(call.args, y)])
                  + PrincipalTerm(call.args))

C20_Witness ==
    /\ Called("calculate_bond_floor")
    /\ call.args.years_to_maturity = 7000
    /\ call.args.coupon_rates = List(<< 10, 20 >>)
    /\ call.args.conversion_probs = List(<< 500, 0, 200, 0 >>)
    /\ call.args.discount_rate = 40
    /\ CouponTerm(call.args, 7) > 0
    /\ PrincipalTerm(call.args) > 0
    /\ call.value < PlainPresentValue(call.args)

\* What row i is valued with after the validation of lines 414-419.
StockUsed(i) == EffectiveStock(StockOf(i), ConvertOf(i))
StrikeUsed(i) == ConvertOf(i).v
YearsUsed(i) == EffectiveYears(Get(df[i], columns, "years_to_maturity", Num(3000)))
SigmaUsed ==
    RDiv(SHENGTANG_CONFIG.default_volatility * SHENGTANG_CONFIG.volatility_adjustment, SC)
RateUsed == SHENGTANG_CONFIG.risk_free_rate

\* The time tier and the conversion-value tier of C21, in thousandths.
TimeTier(years_to_put) ==
    IF years_to_put <= 0 THEN 1000
    ELSE IF years_to_put <= 1000 THEN 900
    ELSE IF years_to_put <= 2000 THEN 500
    ELSE 200

ValueTier(S, K) == IF S > K THEN 300 ELSE IF 10 * S > 9 * K THEN 600 ELSE 1000

\* base (0.80) x time tier x conversion-value tier, with yearsToPut =
\* max(0, yearsToMaturity - 2).
ClaimedRevisionProbability(i) ==
    (800 * TimeTier(Max(0, YearsUsed(i) - 2000)) * ValueTier(StockUsed(i), StrikeUsed(i)))
        \div (SC * SC)

\* The gain in conversion option value from lowering the strike to 0.9 x S.
ValueIncrease(i) ==
    Max(0, calculate_call_option_value(StockUsed(i), (StockUsed(i) * 9) \div 10,
                                       YearsUsed(i), SigmaUsed, RateUsed)
           - calculate_call_option_value(StockUsed(i), StrikeUsed(i), YearsUsed(i),
                                         SigmaUsed, RateUsed))

\* C21: the revision value of a record is the value increase weighted by
\* 0.80 x time tier x conversion-value tier, the tiers as the claim lists them
\* and yearsToPut = max(0, yearsToMaturity - 2); the probability is within
\* [0, 0.80].
C21_RevisionProbability ==
    \A i \in FullyValued :
        /\ ClaimedRevisionProbability(i) >= 0 /\ ClaimedRevisionProbability(i) <= 800
        /\ valuation_results[i].revision_value =
               RDiv(ValueIncrease(i) * ClaimedRevisionProbability(i), SC)

C21_Witness ==
    /\ 1 \in FullyValued
    /\ YearsUsed(1) = 4000
    /\ StockUsed(1) = StrikeUsed(1)
    /\ ClaimedRevisionProbability(1) = 240
    /\ valuation_results[1].revision_value > 0

\* The probability of forced redemption: the chance of ending above the
\* trigger price, raised by half (capped at 0.95) above a conversion value of 125.
CallProbability(a) ==
    LET prob == NormCdf(D2(a.S, RDiv(a.K * a.call_trigger, SC), a.T, a.r, a.sigma))
    IN  IF 100 * a.S > 125 * a.K THEN Min(950, RDiv(prob * 1500, SC)) ELSE prob

OptionValueGain(a) ==
    Max(0, calculate_call_option_value(a.S, a.K, a.T, a.sigma, a.r)
           - calculate_call_option_value(a.S, a.K, 1000, a.sigma, a.r))

\* C22: calculate_forced_redemption_loss returns 0 for every T <= 1; for
\* T > 1 it returns max(0, optionValue(S,K,T) - optionValue(S,K,1)) x callProb.
C22_RedemptionLoss ==
    Called("calculate_forced_redemption_loss") =>
        IF call.args.T <= 1000
        THEN call.value = 0
        ELSE call.value = RDiv(OptionValueGain(call.args) * CallProbability(call.args), SC)

C22_Witness ==
    /\ Called("calculate_forced_redemption_loss")
    /\ call.args.T = 1500
    /\ call.value > 0

\* C26: calculate_downward_revision_value returns 0 whenever convertPrice <=
\* 0.9 x stockPrice, for every T, sigma, r and yearsToPut.
C26_NoGainAboveRevisedStrike ==
    Called("calculate_downward_revision_value") /\ 10 * call.args.K <= 9 * call.args.S
        => call.value = 0

C26_Witness ==
    /\ Called("calculate_downward_revision_value")
    /\ 10 * call.args.K <= 9 * call.args.S
    /\ call.args.S = 28000 /\ call.args.K = 25000
    /\ call.args.T = 3000 /\ call.args.sigma = 385
    /\ call.value = 0

ProbabilitiesOf(a) ==
    IF a.conversion_probs.none
    THEN [k \in 1..Ceil(a.years_to_maturity) |-> 0] ELSE a.conversion_probs.v

LoopAfter(a, k) ==
    BondFloorLoop(1, k, a.face_value, ScheduleOf(a), a.years_to_maturity,
                  a.discount_rate, ProbabilitiesOf(a), [pv |-> 0, remaining_prob |-> SC])

Iterations(a) == 1..Max(0, Ceil(a.years_to_maturity))

ProbabilitiesInUnitInterval(a) ==
    \A k \in DOMAIN ProbabilitiesOf(a) :
        ProbabilitiesOf(a)[k] >= 0 /\ ProbabilitiesOf(a)[k] <= SC

\* C25: with every conversion probability in [0,1], remainingProb starts at 1,
\* never increases from one year to the next and stays within [0,1]; for a
\* non-negative discount rate the bond floor is non-negative and at most the
\* bond floor with all conversion probabilities 0.
C25_RemainingProbability ==
    (Called("calculate_bond_floor") /\ ProbabilitiesInUnitInterval(call.args)) =>
        /\ LoopAfter(call.args, 0).remaining_prob = SC
        /\ \A k \in Iterations(call.args) :
              /\ LoopAfter(call.args, k).remaining_prob
                     <= LoopAfter(call.args, k - 1).remaining_prob
              /\ LoopAfter(call.args, k).remaining_prob >= 0
              /\ LoopAfter(call.args, k).remaining_prob <= SC
        /\ call.args.discount_rate >= 0 =>
              /\ call.value >= 0
              /\ call.value <= (IF call.args.years_to_maturity <= 0
                                THEN call.args.face_value
                                ELSE PlainPresentValue(call.args))

C25_Witness ==
    /\ Called("calculate_bond_floor")
    /\ call.args.years_to_maturity = 3000
    /\ call.args.conversion_probs = List(<< 100, 300 >>)
    /\ LoopAfter(call.args, 1).remaining_prob = 900
    /\ LoopAfter(call.args, 2).remaining_prob = 630
    /\ LoopAfter(call.args, 3).remaining_prob = 441
    /\ call.value > 0
    /\ call.value < PlainPresentValue(call.args)

\* C24: for every record that passes the validation, every pricing primitive
\* is invoked with S > 0, K > 0, T > 0 and sigma > 0: no division by zero and
\* no logarithm of a non-positive number.
C24_PositiveArguments ==
    \A i \in FullyValued :
        \A c \in PrimitiveCalls(StockUsed(i), StrikeUsed(i), YearsUsed(i), SHENGTANG_CONFIG) :
            c.S > 0 /\ c.K > 0 /\ c.T > 0 /\ c.sigma > 0

C24_Witness ==
    /\ 1 \in FullyValued
    /\ InvalidStock(1)
    /\ StockUsed(1) = 20000
    /\ Get(df[1], columns, "years_to_maturity", Num(3000)) = Num(0)
    /\ YearsUsed(1) = 100
    /\ \E c \in PrimitiveCalls(StockUsed(1), StrikeUsed(1), YearsUsed(1), SHENGTANG_CONFIG) :
          c.fn = "calculate_conversion_probability" /\ c.T = 100

\* The put value of a call's row when the discount rate is the passed
\* config's risk-free rate plus the passed config's spread of the row's rating.
PutValueFromPassedConfig(a) ==
    calculate_put_value(100000, 103000, Max(0, a.row.years_to_maturity.v - 2000),
        a.config.risk_free_rate + a.config.credit_spread[Upper(Strip(a.row.rating.v))],
        100)

\* C27: the result depends on the model parameters only through the config
\* argument: the passed config's spread table and risk-free rate are the ones
\* in the discount rate, whatever the module-level SHENGTANG_CONFIG holds.
C27_PassedConfigUsed ==
    (Called("calculate_shengtang_value") /\ call.args.row.convert_price.v > 0) =>
        call.value.result.put_value = PutValueFromPassedConfig(call.args)

Announced(row) == row.redeem_status \in AnnouncedStatus

\* C28: with filter_forced_redemption true, the frame filter_by_risk returns
\* holds no bond whose forced redemption has been announced.
C28_NoAnnouncedRedemption ==
    (Called("filter_by_risk") /\ call.args.filter_forced_redemption) =>
        \A k \in DOMAIN call.value : ~Announced(call.value[k])

\* C29: the path --strategy value of main returns the same records as
\* strategy_value_hunting: price below 105, convert_value above 95,
\* premium_rate below 15, the top_n smallest by double_low.
C29_SameSelection ==
    Called("main --strategy value") =>
        /\ call.value = strategy_value_hunting(call.args.df, call.args.columns,
                                               call.args.top_n)
        /\ \A k \in DOMAIN call.value :
              "convert_value" \in call.args.columns =>
                  call.value[k].convert_value.v > 95000

\* The events of a run so far, by source.
EventsOf(source) == { k \in DOMAIN fetch.log : fetch.log[k].source = source }
PrimaryCallsBefore(k) == Cardinality({ j \in EventsOf("primary") : j < k })
GotData == \E k \in EventsOf("primary") : fetch.log[k].outcome = "data"
FetchReturned == fetch.pc = "returned"

\* What C30 says of every state of a run.
FetchProtocol ==
    /\ Cardinality(EventsOf("primary")) <= fetch.max_retries
    /\ \A k \in EventsOf("primary") :
          fetch.log[k].outcome = "data" =>
              k = Len(fetch.log) /\ FetchReturned /\ fetch.result = "data"
    /\ \A k \in EventsOf("sleep") :
          /\ k > 1
          /\ fetch.log[k - 1] = [source |-> "primary", outcome |-> "raise"]
          /\ PrimaryCallsBefore(k) < fetch.max_retries
    /\ Cardinality(EventsOf("fallback")) <= 1
    /\ EventsOf("fallback") # { } => ~GotData
    /\ FetchReturned => (Cardinality(EventsOf("fallback")) = 1 <=> ~GotData)
    /\ (FetchReturned /\ fetch.result = "None") =>
          /\ Len(fetch.log) \in EventsOf("fallback")
          /\ fetch.log[Len(fetch.log)].outcome \in { "raise", "empty", "none" }
    /\ Cardinality(EventsOf("primary") \cup EventsOf("fallback")) <= fetch.max_retries + 1

\* C30: fetch_cb_basic_data calls the primary source at most max_retries
\* times and stops at the first non-empty result, sleeps only after an attempt
\* that raised and was not the last, calls the fallback exactly once if and only
\* if no primary attempt returned data, returns None only when the fallback
\* raised or returned nothing, and always returns, after at most
\* max_retries + 1 source calls.
C30_FetchTerminates == [](FetchProtocol) /\ <>(FetchReturned)

C30_Witness ==
    /\ FetchReturned
    /\ fetch.max_retries = MAX_RETRIES
    /\ fetch.result = "None"
    /\ Cardinality(EventsOf("primary")) = 3
    /\ Cardinality(EventsOf("sleep")) = 2
    /\ Cardinality(EventsOf("fallback")) = 1

====
